---- MODULE Spec2Model ----
(***************************************************************************)
(* Model of sdks/langs/python/superdoc_sdk.py: the ServerProcessManager    *)
(* singleton that supervises the Node.js helper process, the blocking and  *)
(* the cooperative RPC clients layered on it, and the Editor handles.      *)
(***************************************************************************)
EXTENDS Integers, FiniteSets, Sequences, TLC

(* ---------------- program constants ---------------- *)
MAX_RESTART_ATTEMPTS == 3

(* ---------------- bounds of the model ---------------- *)
NThreads == 2           \* concurrent callers
NPorts == 2             \* loopback ports the OS can hand out
MaxSpawns == 5          \* child processes spawned in one behaviour
MaxRestartCount == 5    \* cap of the (unbounded) restart counter
NClients == 2           \* client objects, each blocking or cooperative
NSoloClients == 1       \* clients driven in the single-caller specification
NCallers == 1           \* threads that use the clients and editors
MaxClientSpawns == 3    \* child processes spawned under the clients
MaxSharedSpawns == 2    \* child processes spawned under concurrent callers
MaxSessions == 3        \* ClientSession objects one client constructs
MaxFairSpawns == 2      \* child processes spawned under fair scheduling

Threads == 1..NThreads
Ports == 1..NPorts
Pids == 1..MaxSpawns
Clients == 1..NClients
Callers == {t \in Threads : t <= NCallers}
SoloClients == {c \in Clients : c <= NSoloClients}
NoClient == 0

(* None for a process handle / a port; None for an endpoint string *)
NoProc == 0
NoPort == 0
NoEndpoint == <<>>
(* None as the value of SuperdocAsyncClient._session *)
NoSession == 0
(* None as the value of _manager and of ServerProcessManager._instance *)
NoInstance == 0
(* every thread's constructor call could allocate an object of its own *)
Instances == 1..NThreads

(* f"http://localhost:{port}" *)
EndpointOf(p) == <<"http://localhost", p>>

VARIABLES
  lock,            \* ServerProcessManager._lock: holder thread, 0 when free
  process,         \* _process: pid of the Popen handle or NoProc
  port,            \* _port
  endpoint,        \* _endpoint
  restart_count,   \* _restart_count
  shutting_down,   \* _shutting_down
  procState,       \* OS view of each child: none/starting/healthy/hung/dead
  procPort,        \* port a live child was started on
  helper,          \* behaviour of the helper executable in this run
  variant,         \* class of each client: "sync" or "async"
  pc,              \* position of each thread
  op,              \* operation each thread is executing
  ret,             \* outcome delivered to the caller: [kind, ep, resp]
  meth,            \* RPC method of the _call a thread is in
  cli,             \* client object (and its editor) a thread is calling on
  req,             \* endpoint the request in flight was sent to
  cl_endpoint,     \* SuperdocClient._endpoint / SuperdocAsyncClient._endpoint
  cl_gen,          \* the child that was current when cl_endpoint was stored
  edState,         \* the editor handle of each client: none / loading / live
  destroyed,       \* Editor._destroyed
  destroyRpcs,     \* destroy requests sent for the editor's session
  overlap,         \* editors on which two destroy calls ran at the same time
  hist,            \* per client: how its recent plain calls ended
  spawnCount,      \* number of Popen calls made so far
  hc_response,     \* what a probed endpoint does with a ping request
  hc_op,           \* the probe applied to it: health_check or ping
  hc_result,       \* what the probe handed to its caller
  lifecycle,       \* helper side: lifecycle state of each editor's session
  manager_lock,    \* module-level _manager_lock: holder thread, 0 when free
  manager,         \* module-level _manager: instance id, 0 for None
  instance,        \* ServerProcessManager._instance: instance id, 0 for None
  initialized,     \* _initialized of each instance
  created,         \* instances allocated by super().__new__ so far
  inits,           \* times __init__ has assigned the supervisor's fields
  local,           \* the instance each thread's constructor call holds
  backoff,         \* the ensure_running call in progress slept RESTART_DELAY
  cl_session,      \* SuperdocAsyncClient._session: a session object or None
  sessOpen,        \* per client: the ClientSession objects it made, still open
  sessMade         \* per client: ClientSession objects constructed so far

vars == <<lock, process, port, endpoint, restart_count, shutting_down,
          procState, procPort, helper, variant, pc, op, ret, meth, cli,
          req, cl_endpoint, cl_gen, edState, destroyed, destroyRpcs, overlap,
          hist,
          spawnCount, hc_response, hc_op, hc_result, lifecycle,
          manager_lock, manager, instance, initialized, created, inits,
          local, backoff, cl_session, sessOpen, sessMade>>

supVars == <<process, port, endpoint, restart_count, shutting_down>>
osVars == <<procState, procPort>>
probeVars == <<hc_response, hc_op, hc_result>>
(* what the supervisor's and the clients' own steps never write *)
mgrVars == <<manager_lock, manager, instance, initialized, created, inits,
             local>>
cfgVars == <<helper, variant, probeVars, lifecycle, mgrVars>>
runCfg == <<cfgVars, backoff>>
threadVars == <<pc, op, ret, meth, cli, req>>
clVars == <<cl_endpoint, cl_gen>>
sessVars == <<cl_session, sessOpen, sessMade>>
edVars == <<edState, destroyed, destroyRpcs, overlap, hist, sessVars>>

NoRet == [kind |-> "none", ep |-> NoEndpoint, resp |-> "none"]
Ret(k) == [kind |-> k, ep |-> NoEndpoint, resp |-> "none"]
RetEp(e) == [kind |-> "ok", ep |-> e, resp |-> "none"]
RetResp(k, o) == [kind |-> k, ep |-> NoEndpoint, resp |-> o]

(* ---------------- operating system / helper process ---------------- *)
AliveIn(ps, p) == p # NoProc /\ ps[p] \in {"starting", "healthy", "hung"}
Alive(p) == AliveIn(procState, p)

(* Popen.poll() is None *)
PollIsNone(p) == Alive(p)

(* _find_free_port: a port no live child is bound to *)
FreePortsIn(ps, pp) == Ports \ {pp[p] : p \in {q \in Pids : AliveIn(ps, q)}}

(* the child (if any) that answers on an endpoint *)
Listener(e) == {p \in Pids : procState[p] \in {"healthy", "hung"}
                             /\ EndpointOf(procPort[p]) = e}

(* _do_health_check: true only when a child answers ping on the endpoint *)
DoHealthCheck(e) == \E p \in Listener(e) : procState[p] = "healthy"

(* state of a freshly spawned child *)
SpawnState == IF helper = "crashy" THEN "dead" ELSE "starting"

(* ---------------- outcomes seen by callers ---------------- *)
(* kinds of SuperdocError raised by the module *)
SuperdocErrors == {"shutting_down", "crash_loop", "died", "start_timeout",
                   "config", "app_error", "conn_error"}

IsSuperdocError(k) == k \in SuperdocErrors

(* SuperdocClient or SuperdocAsyncClient *)
Variant(c) == variant[c]

(* what the helper (or the loopback socket) does with a request sent to e *)
Outcomes(e) ==
  IF Listener(e) = {} THEN {"refused"}
  ELSE IF DoHealthCheck(e)
         THEN {"result", "error", "both", "neither", "bad_json",
               "http_error", "timeout", "reset"}
         ELSE {"timeout", "reset"}

(* exception class the HTTP exchange and the JSON parse raise, "none" when *)
(* a JSON object was read: urlopen/read/json.loads, session.post/json()    *)
Raised(v, o) ==
  IF v = "sync"
    THEN CASE o = "refused" -> {"URLError"}
           [] o = "reset" -> {"URLError", "ConnectionResetError"}
           [] o = "timeout" -> {"URLError", "TimeoutError"}
           [] o = "http_error" -> {"HTTPError"}
           [] o = "bad_json" -> {"JSONDecodeError"}
           [] OTHER -> {"none"}
    ELSE CASE o = "refused" -> {"ClientConnectorError"}
           [] o = "reset" -> {"ServerDisconnectedError"}
           [] o = "timeout" -> {"TimeoutError"}
           [] o = "http_error" -> {"none", "ContentTypeError"}
           [] o = "bad_json" -> {"ContentTypeError", "JSONDecodeError"}
           [] OTHER -> {"none"}

(* "error" in result *)
HasErrorKey(v, o) == o \in {"error", "both"} \/ (v = "async" /\ o = "http_error")

(* except urllib.error.URLError / except aiohttp.ClientError *)
Caught_all(v, x) == x # "none"
Caught_status(v, x) == x \in {"HTTPError", "ContentTypeError"}
Caught(v, x) ==
  IF v = "sync"
    THEN x \in {"URLError", "HTTPError"}
    ELSE x \in {"ClientConnectorError", "ServerDisconnectedError",
                "ContentTypeError"}

(* what _call does with outcome o when the exchange raised x: the kind   *)
(* handed to the caller and whether the cached endpoint is set to None   *)
CallEffect(v, o, x) ==
  LET y == IF x = "none" /\ HasErrorKey(v, o) THEN "SuperdocError" ELSE x
  IN IF y = "none" THEN <<"ok", FALSE>>
     ELSE IF Caught(v, y) THEN <<"conn_error", TRUE>>
     ELSE <<IF y = "SuperdocError" THEN "app_error" ELSE y, FALSE>>

CallEffects(v, o) == {CallEffect(v, o, x) : x \in Raised(v, o)}

(* ---------------- ping responses ---------------- *)
(* JSON values a response can carry, by Python type and truthiness *)
Atoms == {"null", "false", "true", "zero", "one", "emptystr", "str",
          "emptylist", "list"}
Dicts == {"emptyobj", "obj"}
Truthy(a) == a \in {"true", "one", "str", "list", "obj"}

Failures == {"refused", "timeout", "reset", "http_error", "bad_json"}

Response(tr, top, err, res, pong) ==
  [transport |-> tr, top |-> top, error |-> err, result |-> res, pong |-> pong]

NoResponse == Response("none", "null", FALSE, "missing", "missing")

(* a failed exchange; a body that is not an object; an object with or    *)
(* without "error", whose "result" is missing, a non-object, {} or an    *)
(* object whose "pong" is missing or any value                           *)
Responses ==
  {Response(f, "null", FALSE, "missing", "missing") : f \in Failures}
  \cup {Response("body", a, FALSE, "missing", "missing") : a \in Atoms}
  \cup {Response("body", "obj", e, r, "missing") :
          e \in BOOLEAN, r \in {"missing", "emptyobj"} \cup Atoms}
  \cup {Response("body", "obj", e, "obj", p) :
          e \in BOOLEAN, p \in {"missing"} \cup Atoms \cup Dicts}

Raise(x) == [raised |-> x, value |-> "null"]
Value(a) == [raised |-> "none", value |-> a]
Pending == [raised |-> "none", value |-> "pending"]

(* d.get("pong", False) on the value d *)
GetPong(d, pong) ==
  IF d \notin Dicts THEN Raise("AttributeError")
  ELSE IF d = "emptyobj" \/ pong = "missing" THEN Value("false")
  ELSE Value(pong)

(* except Exception: return False *)
ProbeCaught_url(x) == x \in {"URLError", "HTTPError"}
ProbeCaught(x) == x # "none"

Guarded(out) == IF ProbeCaught(out.raised) THEN Value("false") ELSE out

(* _do_health_check, lines 226-237, when the exchange raised x ("none"   *)
(* when a JSON value was read): result.get("result", {}).get("pong",     *)
(* False) inside try / except Exception                                  *)
HealthCheckResult(r, x) ==
  Guarded(IF x # "none" THEN Raise(x)
          ELSE IF r.top # "obj" THEN Raise("AttributeError")
          ELSE GetPong(IF r.result = "missing" THEN "emptyobj" ELSE r.result,
                       r.pong))

(* _call("ping") for a client of variant v: the "error" test and        *)
(* result.get("result"), lines 586-589                                   *)
PingCall(v, r, x) ==
  IF x # "none" THEN Raise(IF Caught(v, x) THEN "SuperdocError" ELSE x)
  ELSE IF r.top \in {"null", "false", "true", "zero", "one"}
         THEN Raise("TypeError")
  ELSE IF r.top # "obj" THEN Raise("AttributeError")
  ELSE IF r.error THEN Raise("SuperdocError")
  ELSE Value(IF r.result = "missing" THEN "null" ELSE r.result)

(* ping, lines 596-602: result = self._call("ping");                     *)
(* result.get("pong", False) inside try / except Exception               *)
PingResult(v, r, x) ==
  Guarded(LET c == PingCall(v, r, x)
          IN IF c.raised # "none" THEN c ELSE GetPong(c.value, r.pong))

(* Editor.destroy / AsyncEditor.destroy: except Exception: pass *)
Swallowed_superdoc(k) == IsSuperdocError(k)
Swallowed(k) == k # "ok"

(* ---------------- ServerProcessManager ---------------- *)
(* with self._lock: *)
CanAcquire_nolock(t) == TRUE
CanAcquire(t) == lock = 0

(* self._restart_count > MAX_RESTART_ATTEMPTS *)
ExceedsCeiling_ge(n) == n >= MAX_RESTART_ATTEMPTS
ExceedsCeiling(n) == n > MAX_RESTART_ATTEMPTS

(* _stop_process: terminate/kill the child, clear process, port, endpoint *)
StoppedState_spared == procState

StoppedState == IF process # NoProc
                  THEN [procState EXCEPT ![process] = "dead"] ELSE procState
StoppedPorts == IF process # NoProc
                  THEN [procPort EXCEPT ![process] = NoPort] ELSE procPort

StopProcess_keepEndpoint ==
  /\ procState' = StoppedState
  /\ procPort' = StoppedPorts
  /\ process' = IF process # NoProc THEN NoProc ELSE process
  /\ port' = IF process # NoProc THEN NoPort ELSE port
  /\ endpoint' = endpoint

StopProcess_keepPort ==
  /\ procState' = StoppedState
  /\ procPort' = StoppedPorts
  /\ process' = IF process # NoProc THEN NoProc ELSE process
  /\ port' = port
  /\ endpoint' = IF process # NoProc THEN NoEndpoint ELSE endpoint

StopProcess_keepHandle ==
  /\ procState' = StoppedState
  /\ procPort' = StoppedPorts
  /\ process' = process
  /\ port' = IF process # NoProc THEN NoPort ELSE port
  /\ endpoint' = IF process # NoProc THEN NoEndpoint ELSE endpoint

StopProcess ==
  /\ procState' = StoppedState
  /\ procPort' = StoppedPorts
  /\ process' = IF process # NoProc THEN NoProc ELSE process
  /\ port' = IF process # NoProc THEN NoPort ELSE port
  /\ endpoint' = IF process # NoProc THEN NoEndpoint ELSE endpoint

(* what ensure_running finds at lines 293-300 *)
Found_noFastPath ==
  IF process # NoProc /\ PollIsNone(process)
    THEN "unhealthy"
    ELSE IF process # NoProc /\ ~PollIsNone(process) THEN "dead" ELSE "cold"

Found ==
  IF process # NoProc /\ PollIsNone(process)
    THEN IF DoHealthCheck(endpoint) THEN "healthy" ELSE "unhealthy"
    ELSE IF process # NoProc /\ ~PollIsNone(process) THEN "dead" ELSE "cold"

(* the findings on which ensure_running calls _stop_process (line 297):  *)
(* the handle of a child found dead is kept                              *)
TornDown_never(f) == FALSE
TornDown_dead(f) == f \in {"unhealthy", "dead"}
TornDown(f) == f = "unhealthy"

(* with self._lock (line 291): the lock once thread t has left the      *)
(* block, by return (k = "ok") or by the exception k                     *)
LockOnExit_heldOnRaise(t, k) == IF k = "ok" THEN 0 ELSE t

LockOnExit(t, k) == 0

(* the findings that cost restart budget (line 304) *)
CountsAsCrash_unhealthy(f) == f \in {"dead", "unhealthy"}
CountsAsCrash_cold(f) == f \in {"dead", "cold"}
CountsAsCrash(f) == f = "dead"

(* the calls that reach time.sleep(RESTART_DELAY) (line 312): those in   *)
(* the crash branch that passed the shutting-down and ceiling checks     *)
Backoff_unhealthy(f, n) ==
  (CountsAsCrash(f) \/ f = "unhealthy") /\ ~shutting_down /\ ~ExceedsCeiling(n)

Backoff(f, n) == CountsAsCrash(f) /\ ~shutting_down /\ ~ExceedsCeiling(n)

(* lines 301-309: the crash branch raises, for the shutting-down flag or *)
(* for a counter n above the ceiling                                     *)
Refuses_ceilingOnly(f, n) == CountsAsCrash(f) /\ ExceedsCeiling(n)

Refuses(f, n) == CountsAsCrash(f) /\ (shutting_down \/ ExceedsCeiling(n))

(* ways _start_process ends: a Popen handle, SuperdocError from the      *)
(* dependency discovery, FileNotFoundError when node is not installed    *)
StartOutcomes ==
  IF helper = "any" THEN {"spawned", "config", "FileNotFoundError"}
                    ELSE {"spawned"}

(* history of the plain calls of one client: "ok" after a call that      *)
(* returned, "lost" after the next call failed on a connection nobody    *)
(* answers, "recovered" after the call following that one returned       *)
HistAfter(h, r) ==
  IF r.kind = "ok" THEN (IF h = "lost" THEN "recovered" ELSE "ok")
  ELSE IF h = "ok" /\ r.resp = "refused" THEN "lost"
  ELSE "none"

(* thread u is inside destroy() of the editor of client c *)
InDestroy(u, c) ==
  /\ cli[u] = c /\ pc[u] # "done"
  /\ op[u] = "destroy" \/ (op[u] = "with" /\ meth[u] = "destroy")

(* __exit__ / __aexit__: self.destroy() on every way out of the block *)
ExitDestroys_onSuccess(r) == r.kind = "ok"
ExitDestroys(r) == TRUE

(* with client.get_editor(docx) as editor: <one editor call>; r ends the *)
(* step the block is in: get_editor, the body, or destroy in __exit__    *)
FinishWith(t, r) ==
  LET c == cli[t]
      opened == meth[t] = "loadDocx" /\ r.kind = "ok" /\ r.resp = "result"
      leaving == meth[t] = "rpc" /\ ExitDestroys(r) /\ ~destroyed[c]
      goOn == opened \/ leaving
  IN /\ pc' = [pc EXCEPT ![t] = IF goOn THEN "call_check" ELSE "done"]
     /\ req' = [req EXCEPT ![t] = NoEndpoint]
     /\ meth' = [meth EXCEPT ![t] = IF opened THEN "rpc"
                                    ELSE IF leaving THEN "destroy" ELSE @]
     /\ edState' = IF meth[t] \in {"none", "loadDocx"}
                     THEN [edState EXCEPT ![c] =
                             IF opened THEN "live" ELSE "none"]
                     ELSE edState
     /\ ret' = [ret EXCEPT ![t] =
                  IF meth[t] \in {"none", "loadDocx"}
                    THEN (IF opened THEN @
                          ELSE IF r.kind = "ok"
                                 THEN RetResp("TypeError", r.resp) ELSE r)
                  ELSE IF meth[t] = "rpc" THEN r
                  ELSE IF r.kind = "ok" \/ Swallowed(r.kind) THEN @ ELSE r]
     /\ destroyed' = IF meth[t] = "destroy" /\
                        (r.kind = "ok" \/ Swallowed(r.kind))
                       THEN [destroyed EXCEPT ![c] = TRUE] ELSE destroyed
     /\ overlap' = IF leaving /\ \E u \in Threads \ {t} : InDestroy(u, c)
                     THEN overlap \cup {c} ELSE overlap
     /\ UNCHANGED <<op, cli, destroyRpcs, hist, sessVars>>

(* the operation of thread t ends and r is what its _call (or            *)
(* ensure_running) produced; destroy and get_editor post-process it      *)
FinishOp(t, r) ==
  /\ pc' = [pc EXCEPT ![t] = "done"]
  /\ req' = [req EXCEPT ![t] = NoEndpoint]
  /\ UNCHANGED <<op, meth, cli, destroyRpcs, overlap, sessVars>>
  /\ hist' = IF op[t] = "rpc"
               THEN [hist EXCEPT ![cli[t]] = HistAfter(hist[cli[t]], r)]
               ELSE hist
  /\ IF op[t] = "destroy"
       THEN \* try: _call("destroy") except Exception: pass; _destroyed = True
            IF r.kind = "ok" \/ Swallowed(r.kind)
              THEN /\ ret' = [ret EXCEPT ![t] = RetResp("ok", r.resp)]
                   /\ destroyed' = [destroyed EXCEPT ![cli[t]] = TRUE]
                   /\ UNCHANGED edState
              ELSE /\ ret' = [ret EXCEPT ![t] = r]
                   /\ UNCHANGED <<destroyed, edState>>
       ELSE IF op[t] = "get_editor"
              THEN \* Editor(self, result["sessionId"])
                   IF meth[t] = "loadDocx" /\ r.kind = "ok" /\ r.resp = "result"
                     THEN /\ ret' = [ret EXCEPT ![t] = r]
                          /\ edState' = [edState EXCEPT ![cli[t]] = "live"]
                          /\ UNCHANGED destroyed
                     ELSE /\ ret' = [ret EXCEPT ![t] =
                                       IF r.kind = "ok"
                                         THEN RetResp("TypeError", r.resp)
                                         ELSE r]
                          /\ edState' = [edState EXCEPT ![cli[t]] = "none"]
                          /\ UNCHANGED destroyed
              ELSE /\ ret' = [ret EXCEPT ![t] = r]
                   /\ UNCHANGED <<destroyed, edState>>

Finish(t, r) == IF op[t] = "with" THEN FinishWith(t, r) ELSE FinishOp(t, r)

(* _get_session / close: self._session is not None and not               *)
(* self._session.closed                                                  *)
HasOpenSession(c) ==
  cl_session[c] # NoSession /\ cl_session[c] \in sessOpen[c]

(* the request of thread t goes out to endpoint e; the cooperative       *)
(* variant posts it on the session _get_session returns (lines 821-827)  *)
Send(t, e) ==
  /\ pc' = [pc EXCEPT ![t] = "call_recv"]
  /\ req' = [req EXCEPT ![t] = e]
  /\ destroyRpcs' = IF meth[t] = "destroy"
                      THEN [destroyRpcs EXCEPT ![cli[t]] = @ + 1]
                      ELSE destroyRpcs
  /\ LET c == cli[t]
         s == sessMade[c] + 1
     IN IF Variant(c) = "async" /\ ~HasOpenSession(c)
          THEN /\ cl_session' = [cl_session EXCEPT ![c] = s]
               /\ sessOpen' = [sessOpen EXCEPT ![c] = @ \cup {s}]
               /\ sessMade' = [sessMade EXCEPT ![c] = s]
          ELSE UNCHANGED sessVars
  /\ UNCHANGED <<op, ret, meth, cli, edState, destroyed, overlap, hist>>

Goto(t, p) ==
  /\ pc' = [pc EXCEPT ![t] = p]
  /\ UNCHANGED <<op, ret, meth, cli, req, edVars>>

(* ensure_running hands r to its caller: the program, or _ensure_runtime *)
(* which stores the endpoint in the client before _call goes on          *)
LeaveEnsure(t, r) ==
  IF op[t] = "ensure_running" \/ r.kind # "ok"
    THEN /\ Finish(t, r)
         /\ UNCHANGED clVars
    ELSE /\ cl_endpoint' = [cl_endpoint EXCEPT ![cli[t]] = r.ep]
         /\ cl_gen' = [cl_gen EXCEPT ![cli[t]] = process]
         /\ IF meth[t] = "none"
              THEN \* get_editor: _ensure_runtime done, now _call("loadDocx")
                   /\ meth' = [meth EXCEPT ![t] = "loadDocx"]
                   /\ pc' = [pc EXCEPT ![t] = "call_check"]
                   /\ UNCHANGED <<op, ret, cli, req, edVars>>
              ELSE IF Variant(cli[t]) = "sync"
                     THEN Goto(t, "call_send")
                     ELSE Send(t, r.ep)

CallEnsureRunning(t) ==
  /\ pc[t] = "idle"
  /\ pc' = [pc EXCEPT ![t] = "er_lock"]
  /\ op' = [op EXCEPT ![t] = "ensure_running"]
  /\ UNCHANGED <<lock, supVars, osVars, runCfg, ret, meth, cli, req,
                 clVars, edVars, spawnCount>>

(* lines 291-318: take the lock; fast path, teardown of an unhealthy     *)
(* child, crash accounting and backoff; then _find_free_port,            *)
(* _start_process and the new handle                                     *)
ErEnter(t) ==
  /\ pc[t] = "er_lock"
  /\ CanAcquire(t)
  /\ restart_count < MaxRestartCount
  /\ spawnCount < MaxSpawns
  /\ LET f == Found
         ps0 == IF TornDown(f) THEN StoppedState ELSE procState
         pp0 == IF TornDown(f) THEN StoppedPorts ELSE procPort
         n == IF CountsAsCrash(f) /\ ~shutting_down
                THEN restart_count + 1 ELSE restart_count
         new == spawnCount + 1
     IN  /\ UNCHANGED shutting_down
         /\ restart_count' = n
         /\ IF f = "healthy"
              THEN /\ LeaveEnsure(t, RetEp(endpoint))
                   /\ lock' = LockOnExit(t, "ok")
                   /\ UNCHANGED <<process, port, endpoint, osVars, spawnCount>>
              ELSE IF Refuses(f, n)
                     THEN /\ LeaveEnsure(t, Ret(IF shutting_down
                                                  THEN "shutting_down"
                                                  ELSE "crash_loop"))
                          /\ lock' = LockOnExit(t, "crash_loop")
                          /\ IF TornDown(f) THEN StopProcess
                               ELSE UNCHANGED <<process, port, endpoint,
                                                osVars>>
                          /\ UNCHANGED spawnCount
                     ELSE \E k \in StartOutcomes :
                            IF k = "spawned"
                              THEN \E q \in FreePortsIn(ps0, pp0) :
                                     /\ process' = new
                                     /\ port' = q
                                     /\ endpoint' = EndpointOf(q)
                                     /\ procState' =
                                          [ps0 EXCEPT ![new] = SpawnState]
                                     /\ procPort' =
                                          [pp0 EXCEPT ![new] =
                                             IF SpawnState = "dead"
                                               THEN NoPort ELSE q]
                                     /\ spawnCount' = new
                                     /\ lock' = t
                                     /\ Goto(t, "er_wait")
                                     /\ UNCHANGED clVars
                              ELSE /\ LeaveEnsure(t, Ret(k))
                                   /\ lock' = LockOnExit(t, k)
                                   /\ IF TornDown(f) THEN StopProcess
                                        ELSE UNCHANGED <<process, port,
                                                         endpoint, osVars>>
                                   /\ UNCHANGED spawnCount
         /\ backoff' = Backoff(f, n)
  /\ UNCHANGED cfgVars

(* lines 271-273: output = process.stdout.read(); raise SuperdocError(    *)
(* f"Server process died:\n{output}"), stdout being the pipe of line 253  *)
DiedError_timeout == Ret("start_timeout")

DiedError == RetResp("died", "captured_output")

(* line 325: self._restart_count = 0 after a successful start *)
CountAfterReady_kept == restart_count

CountAfterReady == 0

(* lines 320-327 with _wait_for_ready: one poll of the readiness loop *)
ErWait(t) ==
  /\ pc[t] = "er_wait"
  /\ IF DoHealthCheck(EndpointOf(port))
       THEN /\ restart_count' = CountAfterReady
            /\ LeaveEnsure(t, RetEp(endpoint))
            /\ lock' = LockOnExit(t, "ok")
            /\ UNCHANGED <<process, port, endpoint, shutting_down, osVars>>
       ELSE IF ~PollIsNone(process)
              THEN /\ LeaveEnsure(t, DiedError)
                   /\ lock' = LockOnExit(t, "died")
                   /\ UNCHANGED <<supVars, osVars>>
              ELSE \* the loop runs out of time: _stop_process and raise
                   /\ helper = "any"
                   /\ StopProcess
                   /\ LeaveEnsure(t, Ret("start_timeout"))
                   /\ lock' = LockOnExit(t, "start_timeout")
                   /\ UNCHANGED <<restart_count, shutting_down>>
  /\ backoff' = FALSE
  /\ UNCHANGED <<cfgVars, spawnCount>>

(* stop(): set the flag and stop the child, under the lock *)
Stop(t) ==
  /\ pc[t] = "idle"
  /\ CanAcquire(t)
  /\ shutting_down' = TRUE
  /\ StopProcess
  /\ pc' = [pc EXCEPT ![t] = "done"]
  /\ op' = [op EXCEPT ![t] = "stop"]
  /\ ret' = [ret EXCEPT ![t] = Ret("stopped")]
  /\ UNCHANGED <<lock, restart_count, runCfg, meth, cli, req, clVars,
                 edVars, spawnCount>>

(* is_running(): alive, endpoint set and health check passes, under the lock *)
IsRunning(t) ==
  /\ pc[t] = "idle"
  /\ CanAcquire(t)
  /\ pc' = [pc EXCEPT ![t] = "done"]
  /\ op' = [op EXCEPT ![t] = "is_running"]
  /\ ret' = [ret EXCEPT ![t] =
               IF /\ process # NoProc
                  /\ PollIsNone(process)
                  /\ endpoint # NoEndpoint
                  /\ DoHealthCheck(endpoint)
                 THEN Ret("true") ELSE Ret("false")]
  /\ UNCHANGED <<lock, supVars, osVars, runCfg, meth, cli, req, clVars,
                 edVars, spawnCount>>

(* the caller takes the outcome and is free to call again *)
Return(t) ==
  /\ pc[t] = "done"
  /\ pc' = [pc EXCEPT ![t] = "idle"]
  /\ op' = [op EXCEPT ![t] = "none"]
  /\ ret' = [ret EXCEPT ![t] = NoRet]
  /\ meth' = [meth EXCEPT ![t] = "none"]
  /\ cli' = [cli EXCEPT ![t] = NoClient]
  /\ req' = [req EXCEPT ![t] = NoEndpoint]
  /\ UNCHANGED <<lock, supVars, osVars, runCfg, clVars, edVars,
                 spawnCount>>

(* ---------------- SuperdocClient / SuperdocAsyncClient ---------------- *)
(* an editor method other than destroy: client._call(method, sessionId=..) *)
RpcBegin(t, c) ==
  /\ pc[t] = "idle"
  /\ pc' = [pc EXCEPT ![t] = "call_check"]
  /\ op' = [op EXCEPT ![t] = "rpc"]
  /\ meth' = [meth EXCEPT ![t] = "rpc"]
  /\ cli' = [cli EXCEPT ![t] = c]
  /\ UNCHANGED <<lock, supVars, osVars, runCfg, ret, req, clVars,
                 edVars, spawnCount>>

(* get_editor: self._ensure_runtime() comes first, whatever is cached *)
GetEditorBegin(t, c) ==
  /\ pc[t] = "idle"
  /\ edState[c] = "none"
  /\ edState' = [edState EXCEPT ![c] = "loading"]
  /\ pc' = [pc EXCEPT ![t] = "er_lock"]
  /\ op' = [op EXCEPT ![t] = "get_editor"]
  /\ cli' = [cli EXCEPT ![t] = c]
  /\ UNCHANGED <<lock, supVars, osVars, runCfg, ret, meth, req, clVars,
                 destroyed, destroyRpcs, overlap, hist, sessVars,
                 spawnCount>>

(* a convenience call: with client.get_editor(docx) as editor: ...       *)
WithBegin(t, c) ==
  /\ pc[t] = "idle"
  /\ edState[c] = "none"
  /\ edState' = [edState EXCEPT ![c] = "loading"]
  /\ pc' = [pc EXCEPT ![t] = "er_lock"]
  /\ op' = [op EXCEPT ![t] = "with"]
  /\ cli' = [cli EXCEPT ![t] = c]
  /\ UNCHANGED <<lock, supVars, osVars, runCfg, ret, meth, req, clVars,
                 destroyed, destroyRpcs, overlap, hist, sessVars,
                 spawnCount>>

(* _call entry, lines 570-571 / 831-834: if self._endpoint is None:       *)
(* self._ensure_runtime().  The cooperative variant posts without         *)
(* yielding after the check; the blocking one builds the Request later.   *)
CallCheck(t) ==
  /\ pc[t] = "call_check"
  /\ IF cl_endpoint[cli[t]] = NoEndpoint
       THEN Goto(t, "er_lock")
       ELSE IF Variant(cli[t]) = "sync"
              THEN Goto(t, "call_send")
              ELSE Send(t, cl_endpoint[cli[t]])
  /\ UNCHANGED <<lock, supVars, osVars, runCfg, clVars, spawnCount>>

(* blocking variant, lines 573-583: urllib.request.Request(self._endpoint) *)
CallSend(t) ==
  /\ pc[t] = "call_send"
  /\ IF cl_endpoint[cli[t]] = NoEndpoint
       THEN Finish(t, Ret("ValueError"))
       ELSE Send(t, cl_endpoint[cli[t]])
  /\ UNCHANGED <<lock, supVars, osVars, runCfg, clVars, spawnCount>>

(* lines 582-594 / 837-853: the response, or the failure, of the exchange *)
CallRecv(t) ==
  /\ pc[t] = "call_recv"
  /\ \E o \in Outcomes(req[t]) : \E x \in Raised(Variant(cli[t]), o) :
       LET e == CallEffect(Variant(cli[t]), o, x)
       IN /\ cl_endpoint' = IF e[2]
                              THEN [cl_endpoint EXCEPT ![cli[t]] = NoEndpoint]
                              ELSE cl_endpoint
          /\ cl_gen' = IF e[2] THEN [cl_gen EXCEPT ![cli[t]] = NoProc]
                               ELSE cl_gen
          /\ Finish(t, RetResp(e[1], o))
  /\ UNCHANGED <<lock, supVars, osVars, runCfg, spawnCount>>

(* ---------------- Editor / AsyncEditor ---------------- *)
(* destroy(): if not self._destroyed: ... ; the editor of client c *)
DestroyBegin(t, c) ==
  /\ pc[t] = "idle"
  /\ edState[c] = "live"
  /\ op' = [op EXCEPT ![t] = "destroy"]
  /\ cli' = [cli EXCEPT ![t] = c]
  /\ overlap' = IF \E u \in Threads \ {t} : InDestroy(u, c)
                  THEN overlap \cup {c} ELSE overlap
  /\ IF destroyed[c]
       THEN /\ pc' = [pc EXCEPT ![t] = "done"]
            /\ ret' = [ret EXCEPT ![t] = Ret("ok")]
            /\ UNCHANGED meth
       ELSE /\ pc' = [pc EXCEPT ![t] = "call_check"]
            /\ meth' = [meth EXCEPT ![t] = "destroy"]
            /\ UNCHANGED ret
  /\ UNCHANGED <<lock, supVars, osVars, runCfg, req, clVars, edState,
                 destroyed, destroyRpcs, hist, sessVars, spawnCount>>

(* the Editor methods that are one RPC tagged with the session id *)
EditorOps == {"get_lifecycle", "close", "open", "get_json"}

(* the method name each of them passes to _call *)
RpcName_swapped(e) ==
  CASE e = "get_lifecycle" -> "getLifecycle"
    [] e = "close" -> "open"
    [] e = "open" -> "close"
    [] OTHER -> "getJSON"

RpcName(e) ==
  CASE e = "get_lifecycle" -> "getLifecycle"
    [] e = "close" -> "close"
    [] e = "open" -> "open"
    [] OTHER -> "getJSON"

EditorCall(t, c, e) ==
  /\ pc[t] = "idle"
  /\ edState[c] = "live"
  /\ pc' = [pc EXCEPT ![t] = "call_check"]
  /\ op' = [op EXCEPT ![t] = e]
  /\ meth' = [meth EXCEPT ![t] = RpcName(e)]
  /\ cli' = [cli EXCEPT ![t] = c]
  /\ UNCHANGED <<lock, supVars, osVars, runCfg, ret, req, clVars,
                 edVars, spawnCount>>

(* the helper's session state machine: its reply to method m on a        *)
(* session in state l, the state it leaves the session in, and what the  *)
(* caller reads from the result                                          *)
Reply(o, l, x) == [o |-> o, next |-> l, payload |-> x]

HelperReply(m, l) ==
  CASE m = "loadDocx" -> Reply("result", "ready", "result")
    [] m = "destroy" /\ l \in {"ready", "idle"} ->
         Reply("result", "destroyed", "result")
    [] m = "getLifecycle" /\ l \in {"ready", "idle"} -> Reply("result", l, l)
    [] m = "open" /\ l \in {"ready", "idle"} ->
         Reply("result", "ready", "result")
    [] m = "close" /\ l = "ready" -> Reply("result", "idle", "result")
    [] m = "getJSON" /\ l = "ready" -> Reply("result", l, "result")
    [] OTHER -> Reply("error", l, "error")

(* lines 582-589 / 837-848 against a helper that answers every request   *)
CallRecvSession(t) ==
  /\ pc[t] = "call_recv"
  /\ DoHealthCheck(req[t])
  /\ LET c == cli[t]
         rp == HelperReply(meth[t], lifecycle[c])
         e == CallEffect(Variant(c), rp.o, "none")
     IN /\ cl_endpoint' = IF e[2]
                             THEN [cl_endpoint EXCEPT ![c] = NoEndpoint]
                             ELSE cl_endpoint
        /\ cl_gen' = IF e[2] THEN [cl_gen EXCEPT ![c] = NoProc] ELSE cl_gen
        /\ lifecycle' = [lifecycle EXCEPT ![c] = rp.next]
        /\ Finish(t, RetResp(e[1], rp.payload))
  /\ UNCHANGED <<lock, supVars, osVars, helper, variant, probeVars,
                 spawnCount, mgrVars, backoff>>

(* ---------------- helper process behaviour ---------------- *)
ProcReady(p) ==
  /\ procState[p] = "starting"
  /\ procState' = [procState EXCEPT ![p] = "healthy"]
  /\ UNCHANGED <<lock, supVars, procPort, runCfg, threadVars, clVars,
                 edVars, spawnCount>>

ProcDie(p) ==
  /\ helper = "any"
  /\ Alive(p)
  /\ procState' = [procState EXCEPT ![p] = "dead"]
  /\ procPort' = [procPort EXCEPT ![p] = NoPort]
  /\ UNCHANGED <<lock, supVars, runCfg, threadVars, clVars, edVars,
                 spawnCount>>

ProcHang(p) ==
  /\ helper = "any"
  /\ procState[p] = "healthy"
  /\ procState' = [procState EXCEPT ![p] = "hung"]
  /\ UNCHANGED <<lock, supVars, procPort, runCfg, threadVars, clVars,
                 edVars, spawnCount>>

ProcRecover(p) ==
  /\ procState[p] = "hung"
  /\ procState' = [procState EXCEPT ![p] = "healthy"]
  /\ UNCHANGED <<lock, supVars, procPort, runCfg, threadVars, clVars,
                 edVars, spawnCount>>

(* ---------------- SuperdocAsyncClient.close ---------------- *)
(* whether 'await self._session.close()' (line 893) hands control to     *)
(* other tasks before it is done: the library marks the session closed   *)
(* at once and may then wait for its connections to shut down            *)
CloseSuspends == {TRUE, FALSE}

(* close() / __aexit__ up to the await: lines 892-893 *)
CloseBegin(t, c) ==
  /\ pc[t] = "idle"
  /\ Variant(c) = "async"
  /\ op' = [op EXCEPT ![t] = "close"]
  /\ cli' = [cli EXCEPT ![t] = c]
  /\ IF HasOpenSession(c)
       THEN /\ sessOpen' = [sessOpen EXCEPT ![c] = @ \ {cl_session[c]}]
            /\ \E w \in CloseSuspends :
                 IF w THEN /\ pc' = [pc EXCEPT ![t] = "close_wait"]
                           /\ UNCHANGED <<cl_session, ret>>
                      ELSE /\ pc' = [pc EXCEPT ![t] = "done"]
                           /\ cl_session' =
                                [cl_session EXCEPT ![c] = NoSession]
                           /\ ret' = [ret EXCEPT ![t] = Ret("ok")]
       ELSE /\ pc' = [pc EXCEPT ![t] = "done"]
            /\ ret' = [ret EXCEPT ![t] = Ret("ok")]
            /\ UNCHANGED <<cl_session, sessOpen>>
  /\ UNCHANGED <<lock, supVars, osVars, runCfg, meth, req, clVars, edState,
                 destroyed, destroyRpcs, overlap, hist, sessMade,
                 spawnCount>>

(* close() resumed: self._session = None (line 894) *)
CloseEnd(t) ==
  /\ pc[t] = "close_wait"
  /\ cl_session' = [cl_session EXCEPT ![cli[t]] = NoSession]
  /\ pc' = [pc EXCEPT ![t] = "done"]
  /\ ret' = [ret EXCEPT ![t] = Ret("ok")]
  /\ UNCHANGED <<lock, supVars, osVars, runCfg, op, meth, cli, req, clVars,
                 edState, destroyed, destroyRpcs, overlap, hist, sessOpen,
                 sessMade, spawnCount>>

(* ---------------- the module-level supervisor singleton ---------------- *)
(* _get_manager: with _manager_lock *)
HoldsManagerLock_nolock(t) == TRUE

HoldsManagerLock(t) == manager_lock = 0

(* a client constructor (or shutdown) calls _get_manager() *)
GetManagerBegin(t) ==
  /\ pc[t] = "idle"
  /\ pc' = [pc EXCEPT ![t] = "gm_lock"]
  /\ op' = [op EXCEPT ![t] = "get_manager"]
  /\ ret' = [ret EXCEPT ![t] = NoRet]
  /\ UNCHANGED <<lock, supVars, osVars, runCfg, meth, cli, req, clVars,
                 edVars, spawnCount>>

(* with _manager_lock: if _manager is None *)
GmEnter(t) ==
  /\ pc[t] = "gm_lock"
  /\ HoldsManagerLock(t)
  /\ manager_lock' = t
  /\ local' = [local EXCEPT ![t] = NoInstance]
  /\ pc' = [pc EXCEPT ![t] = IF manager = NoInstance THEN "mgr_new"
                                                     ELSE "gm_ret"]
  /\ UNCHANGED <<lock, supVars, osVars, helper, variant, probeVars, backoff,
                 lifecycle, manager, instance, initialized, created, inits,
                 op, ret, meth, cli, req, clVars, edVars, spawnCount>>

(* ServerProcessManager.__new__, the whole of it under _instance_lock *)
MgrNew(t) ==
  /\ pc[t] = "mgr_new"
  /\ IF instance = NoInstance
       THEN /\ created' = created + 1
            /\ instance' = created + 1
            /\ initialized' = [initialized EXCEPT ![created + 1] = FALSE]
       ELSE UNCHANGED <<created, instance, initialized>>
  /\ local' = [local EXCEPT ![t] = instance']
  /\ pc' = [pc EXCEPT ![t] = "mgr_init"]
  /\ UNCHANGED <<lock, supVars, osVars, helper, variant, probeVars, backoff,
                 lifecycle, manager_lock, manager, inits,
                 op, ret, meth, cli, req, clVars, edVars, spawnCount>>

(* __init__: if self._initialized: return; else assign the fields *)
MgrInit(t) ==
  /\ pc[t] = "mgr_init"
  /\ IF initialized[local[t]]
       THEN /\ pc' = [pc EXCEPT ![t] = "gm_assign"]
            /\ UNCHANGED <<lock, supVars, inits>>
       ELSE /\ lock' = 0
            /\ process' = NoProc
            /\ port' = NoPort
            /\ endpoint' = NoEndpoint
            /\ restart_count' = 0
            /\ shutting_down' = FALSE
            /\ inits' = inits + 1
            /\ pc' = [pc EXCEPT ![t] = "mgr_init_done"]
  /\ UNCHANGED <<osVars, helper, variant, probeVars, lifecycle, backoff,
                 manager_lock, manager, instance, initialized, created,
                 local, op, ret, meth, cli, req, clVars, edVars, spawnCount>>

(* __init__: self._initialized = True *)
MgrInitDone(t) ==
  /\ pc[t] = "mgr_init_done"
  /\ initialized' = [initialized EXCEPT ![local[t]] = TRUE]
  /\ pc' = [pc EXCEPT ![t] = "gm_assign"]
  /\ UNCHANGED <<lock, supVars, osVars, helper, variant, probeVars, backoff,
                 lifecycle, manager_lock, manager, instance, created, inits,
                 local, op, ret, meth, cli, req, clVars, edVars, spawnCount>>

(* _manager = ServerProcessManager() *)
GmAssign(t) ==
  /\ pc[t] = "gm_assign"
  /\ manager' = local[t]
  /\ pc' = [pc EXCEPT ![t] = "gm_ret"]
  /\ UNCHANGED <<lock, supVars, osVars, helper, variant, probeVars, backoff,
                 lifecycle, manager_lock, instance, initialized, created,
                 inits, local, op, ret, meth, cli, req, clVars, edVars,
                 spawnCount>>

(* return _manager, leaving the with block *)
GmReturn(t) ==
  /\ pc[t] = "gm_ret"
  /\ local' = [local EXCEPT ![t] = manager]
  /\ manager_lock' = IF manager_lock = t THEN 0 ELSE manager_lock
  /\ pc' = [pc EXCEPT ![t] = "done"]
  /\ ret' = [ret EXCEPT ![t] = Ret("ok")]
  /\ UNCHANGED <<lock, supVars, osVars, helper, variant, probeVars, backoff,
                 lifecycle, manager, instance, initialized, created, inits,
                 op, meth, cli, req, clVars, edVars, spawnCount>>

GetManagerStep(t) ==
  \/ GmEnter(t)
  \/ MgrNew(t)
  \/ MgrInit(t)
  \/ MgrInitDone(t)
  \/ GmAssign(t)
  \/ GmReturn(t)

(* ---------------- specifications ---------------- *)
InitState ==
  /\ lock = 0
  /\ process = NoProc
  /\ port = NoPort
  /\ endpoint = NoEndpoint
  /\ restart_count = 0
  /\ shutting_down = FALSE
  /\ procState = [p \in Pids |-> "none"]
  /\ procPort = [p \in Pids |-> NoPort]
  /\ pc = [t \in Threads |-> "idle"]
  /\ op = [t \in Threads |-> "none"]
  /\ ret = [t \in Threads |-> NoRet]
  /\ meth = [t \in Threads |-> "none"]
  /\ cli = [t \in Threads |-> NoClient]
  /\ req = [t \in Threads |-> NoEndpoint]
  /\ cl_endpoint = [c \in Clients |-> NoEndpoint]
  /\ cl_gen = [c \in Clients |-> NoProc]
  /\ edState = [c \in Clients |-> "none"]
  /\ destroyed = [c \in Clients |-> FALSE]
  /\ destroyRpcs = [c \in Clients |-> 0]
  /\ overlap = {}
  /\ hist = [c \in Clients |-> "none"]
  /\ spawnCount = 0
  /\ lifecycle = [c \in Clients |-> "none"]
  /\ backoff = FALSE
  /\ cl_session = [c \in Clients |-> NoSession]
  /\ sessOpen = [c \in Clients |-> {}]
  /\ sessMade = [c \in Clients |-> 0]

(* the module before any client exists: _manager = None, _instance = None *)
NotConstructed ==
  /\ manager_lock = 0
  /\ manager = NoInstance
  /\ instance = NoInstance
  /\ initialized = [i \in Instances |-> FALSE]
  /\ created = 0
  /\ inits = 0
  /\ local = [t \in Threads |-> NoInstance]

(* the module once the first client has obtained the supervisor *)
Constructed ==
  /\ manager_lock = 0
  /\ manager = 1
  /\ instance = 1
  /\ initialized = [i \in Instances |-> i = 1]
  /\ created = 1
  /\ inits = 1
  /\ local = [t \in Threads |-> NoInstance]

(* no probe is under study in the supervisor and client specifications *)
NoProbe ==
  /\ hc_response = NoResponse
  /\ hc_op = "none"
  /\ hc_result = Pending

HelperStep ==
  \/ \E p \in Pids : ProcReady(p)
  \/ \E p \in Pids : ProcDie(p)
  \/ \E p \in Pids : ProcHang(p)
  \/ \E p \in Pids : ProcRecover(p)

EnsureStep ==
  \/ \E t \in Threads : ErEnter(t)
  \/ \E t \in Threads : ErWait(t)

(* the supervisor driven directly, against each kind of helper *)
Init ==
  /\ InitState
  /\ Constructed
  /\ helper \in {"good", "crashy", "any"}
  /\ variant = [c \in Clients |-> "sync"]
  /\ NoProbe

Next ==
  \/ \E t \in Threads : CallEnsureRunning(t)
  \/ EnsureStep
  \/ \E t \in Threads : Stop(t)
  \/ \E t \in Threads : IsRunning(t)
  \/ \E t \in Threads : Return(t)
  \/ HelperStep

Spec == Init /\ [][Next]_vars

(* clients and editors over the supervisor *)
InitClient ==
  /\ InitState
  /\ Constructed
  /\ helper = "any"
  /\ variant \in {f \in [Clients -> {"sync", "async"}] :
                    \A c \in Clients \ SoloClients : f[c] = "sync"}
  /\ NoProbe

ClientEnsureStep ==
  \/ \E t \in Callers : ErEnter(t) /\ spawnCount' <= MaxClientSpawns
  \/ \E t \in Callers : ErWait(t)

NextClient ==
  \/ \E t \in Callers, c \in SoloClients : RpcBegin(t, c)
  \/ \E t \in Callers, c \in SoloClients : GetEditorBegin(t, c)
  \/ \E t \in Callers : CallCheck(t)
  \/ \E t \in Callers : CallSend(t)
  \/ \E t \in Callers : CallRecv(t)
  \/ \E t \in Callers, c \in SoloClients : DestroyBegin(t, c)
  \/ ClientEnsureStep
  \/ \E t \in Callers : Stop(t)
  \/ \E t \in Callers : Return(t)
  \/ HelperStep

SpecClient == InitClient /\ [][NextClient]_vars

(* concurrent callers making plain calls on clients that share the       *)
(* supervisor                                                            *)
SharedEnsureStep ==
  \/ \E t \in Threads : ErEnter(t) /\ spawnCount' <= MaxSharedSpawns
  \/ \E t \in Threads : ErWait(t)

NextShared ==
  \/ \E t \in Threads, c \in Clients : RpcBegin(t, c)
  \/ \E t \in Threads : CallCheck(t)
  \/ \E t \in Threads : CallSend(t)
  \/ \E t \in Threads : CallRecv(t)
  \/ SharedEnsureStep
  \/ \E t \in Threads : Return(t)
  \/ HelperStep

InitShared ==
  /\ InitState
  /\ Constructed
  /\ helper = "any"
  /\ variant \in [Clients -> {"sync", "async"}]
  /\ NoProbe

SpecShared == InitShared /\ [][NextShared]_vars

(* convenience calls: an editor opened, used and left in a with block *)
NextScope ==
  \/ \E t \in Callers, c \in SoloClients : WithBegin(t, c)
  \/ \E t \in Callers : CallCheck(t)
  \/ \E t \in Callers : CallSend(t)
  \/ \E t \in Callers : CallRecv(t)
  \/ ClientEnsureStep
  \/ \E t \in Callers : Stop(t)
  \/ \E t \in Callers : Return(t)
  \/ HelperStep

SpecScope == InitClient /\ [][NextScope]_vars

(* one caller working on one editor against a helper that stays up *)
InitSession ==
  /\ InitState
  /\ Constructed
  /\ helper = "good"
  /\ variant \in {f \in [Clients -> {"sync", "async"}] :
                    \A c \in Clients \ SoloClients : f[c] = "sync"}
  /\ NoProbe

NextSession ==
  \/ \E t \in Callers, c \in SoloClients : GetEditorBegin(t, c)
  \/ \E t \in Callers, c \in SoloClients, e \in EditorOps :
       EditorCall(t, c, e)
  \/ \E t \in Callers, c \in SoloClients : DestroyBegin(t, c)
  \/ \E t \in Callers : CallCheck(t)
  \/ \E t \in Callers : CallSend(t)
  \/ \E t \in Callers : CallRecvSession(t)
  \/ ClientEnsureStep
  \/ \E t \in Callers : Return(t)
  \/ \E p \in Pids : ProcReady(p)

SpecSession == InitSession /\ [][NextSession]_vars

(* the probes applied to every kind of response *)
ProbeTransport(r) == IF r.transport = "body" THEN "result" ELSE r.transport

HealthCheck ==
  /\ hc_op = "none"
  /\ hc_op' = "health_check"
  /\ \E x \in Raised("sync", ProbeTransport(hc_response)) :
       hc_result' = HealthCheckResult(hc_response, x)
  /\ UNCHANGED <<lock, supVars, osVars, helper, variant, hc_response,
                 lifecycle, threadVars, clVars, edVars, spawnCount, mgrVars,
                 backoff>>

Ping(c) ==
  /\ hc_op = "none"
  /\ hc_op' = "ping"
  /\ \E x \in Raised(Variant(c), ProbeTransport(hc_response)) :
       hc_result' = PingResult(Variant(c), hc_response, x)
  /\ UNCHANGED <<lock, supVars, osVars, helper, variant, hc_response,
                 lifecycle, threadVars, clVars, edVars, spawnCount, mgrVars,
                 backoff>>

InitProbe ==
  /\ InitState
  /\ Constructed
  /\ helper = "good"
  /\ variant \in [Clients -> {"sync", "async"}]
  /\ hc_response \in Responses
  /\ hc_op = "none"
  /\ hc_result = Pending

NextProbe ==
  \/ HealthCheck
  \/ \E c \in SoloClients : Ping(c)

SpecProbe == InitProbe /\ [][NextProbe]_vars

(* one editor handle used by several threads, or by several tasks of a  *)
(* cooperative client                                                   *)
NextSharedEditor ==
  \/ \E t \in Threads, c \in SoloClients : GetEditorBegin(t, c)
  \/ \E t \in Threads, c \in SoloClients : DestroyBegin(t, c)
  \/ \E t \in Threads : CallCheck(t)
  \/ \E t \in Threads : CallSend(t)
  \/ \E t \in Threads : CallRecvSession(t)
  \/ SharedEnsureStep
  \/ \E t \in Threads : Return(t)
  \/ \E p \in Pids : ProcReady(p)

SpecSharedEditor == InitSession /\ [][NextSharedEditor]_vars

(* the tasks of one event loop calling and closing a client *)
NextPool ==
  \/ \E t \in Threads, c \in SoloClients :
       sessMade[c] < MaxSessions /\ RpcBegin(t, c)
  \/ \E t \in Threads : CallCheck(t)
  \/ \E t \in Threads : CallSend(t)
  \/ \E t \in Threads : CallRecv(t)
  \/ SharedEnsureStep
  \/ \E t \in Threads, c \in SoloClients : CloseBegin(t, c)
  \/ \E t \in Threads : CloseEnd(t)
  \/ \E t \in Threads : Return(t)
  \/ \E p \in Pids : ProcReady(p)

SpecPool == InitSession /\ [][NextPool]_vars

(* the supervisor under fair scheduling: a thread inside ensure_running  *)
(* goes on running and a thread waiting for the lock gets it if it is    *)
(* freed again and again; the helper may do anything                     *)
InitFair ==
  /\ InitState
  /\ Constructed
  /\ helper = "any"
  /\ variant = [c \in Clients |-> "sync"]
  /\ NoProbe

FairEnter(t) == ErEnter(t) /\ spawnCount' <= MaxFairSpawns

NextFair ==
  \/ \E t \in Threads : CallEnsureRunning(t)
  \/ \E t \in Threads : FairEnter(t)
  \/ \E t \in Threads : ErWait(t)
  \/ \E t \in Threads : Stop(t)
  \/ \E t \in Threads : IsRunning(t)
  \/ \E t \in Threads : Return(t)
  \/ HelperStep

Fairness ==
  /\ \A t \in Threads : WF_vars(ErWait(t))
  /\ \A t \in Threads : SF_vars(FairEnter(t))

SpecFair == InitFair /\ [][NextFair]_vars /\ Fairness

(* clients constructed from several threads, each then using the        *)
(* supervisor its constructor obtained                                  *)
InitSingleton ==
  /\ InitState
  /\ NotConstructed
  /\ helper = "good"
  /\ variant = [c \in Clients |-> "sync"]
  /\ NoProbe

(* thread t holds the supervisor a finished _get_manager() gave it *)
HasManager(t) == pc[t] = "idle" /\ local[t] # NoInstance

NextSingleton ==
  \/ \E t \in Threads : GetManagerBegin(t)
  \/ \E t \in Threads : GetManagerStep(t)
  \/ \E t \in Threads : HasManager(t) /\ CallEnsureRunning(t)
  \/ \E t \in Threads : HasManager(t) /\ Stop(t)
  \/ EnsureStep
  \/ \E t \in Threads : Return(t)
  \/ \E p \in Pids : ProcReady(p)

SpecSingleton == InitSingleton /\ [][NextSingleton]_vars

TypeOK ==
  /\ lock \in 0..NThreads
  /\ process \in {NoProc} \cup Pids
  /\ restart_count \in 0..MaxRestartCount
  /\ spawnCount \in 0..MaxSpawns

(* ======================= properties ======================= *)
Ceiling == MAX_RESTART_ATTEMPTS

(* thread t leaves ensure_running's entry section in this step *)
Entered(t) == pc[t] = "er_lock" /\ pc'[t] # "er_lock"

(* thread t gets the response (or the failure) of its request in this step *)
Received(t) == pc[t] = "call_recv" /\ pc'[t] = "done"

(* C1: with a helper that becomes healthy and stays alive, concurrent     *)
(* ensure_running calls on a cold supervisor spawn one process in total   *)
(* and every call returns the endpoint of that one process.               *)
C1_OneSpawnOneEndpoint ==
  (helper = "good" /\ ~shutting_down) =>
     /\ spawnCount <= 1
     /\ \A t \in Threads :
          (pc[t] = "done" /\ op[t] = "ensure_running") =>
             /\ ret[t].kind = "ok"
             /\ Alive(1)
             /\ ret[t].ep = EndpointOf(procPort[1])
     /\ \A t, u \in Threads :
          (pc[t] = "done" /\ op[t] = "ensure_running" /\
           pc[u] = "done" /\ op[u] = "ensure_running") => ret[t].ep = ret[u].ep

C1_Witness ==
  /\ helper = "good"
  /\ ~shutting_down
  /\ spawnCount = 1
  /\ \A t \in Threads :
       pc[t] = "done" /\ op[t] = "ensure_running" /\ ret[t].kind = "ok"

(* C2: with a helper that exits at once on every spawn (and no stop()),   *)
(* each ensure_running call spawns one process until                      *)
(* MAX_RESTART_ATTEMPTS + 1 were spawned; from then on every call fails   *)
(* with the crash-loop error and spawns nothing.                          *)
C2_CrashLoopCeiling ==
  /\ []((helper = "crashy" /\ ~shutting_down) =>
          /\ spawnCount <= Ceiling + 1
          /\ \A t \in Threads :
               (pc[t] = "done" /\ op[t] = "ensure_running") =>
                  /\ ret[t].kind \in {"died", "crash_loop"}
                  /\ ret[t].kind = "crash_loop" => spawnCount = Ceiling + 1)
  /\ [][\A t \in Threads :
          (helper = "crashy" /\ ~shutting_down /\ Entered(t)) =>
             IF spawnCount < Ceiling + 1
               THEN spawnCount' = spawnCount + 1 /\ pc'[t] = "er_wait"
               ELSE /\ spawnCount' = spawnCount
                    /\ pc'[t] = "done"
                    /\ ret'[t].kind = "crash_loop"]_vars

C2_Witness ==
  /\ helper = "crashy"
  /\ ~shutting_down
  /\ spawnCount = Ceiling + 1
  /\ restart_count = Ceiling + 2
  /\ \E t \in Threads :
       pc[t] = "done" /\ op[t] = "ensure_running" /\ ret[t].kind = "crash_loop"

(* C3 as claimed: once the restart counter has exceeded the ceiling (an   *)
(* ensure_running call failed on the crash-loop guard), no later step     *)
(* spawns a process, whatever else is called in between.                  *)
C3_NeverSpawnsAgain ==
  [][restart_count > Ceiling => spawnCount' = spawnCount]_vars

(* C3 amended: after a crash-loop failure, and until stop() is called,    *)
(* every ensure_running call fails with the crash-loop error and spawns   *)
(* nothing.                                                               *)
C3_FailsFastUntilStop ==
  [][(restart_count > Ceiling /\ ~shutting_down') =>
        /\ spawnCount' = spawnCount
        /\ restart_count' > Ceiling
        /\ \A t \in Threads :
             Entered(t) => pc'[t] = "done" /\ ret'[t].kind = "crash_loop"]_vars

C3_Witness ==
  /\ restart_count = Ceiling + 2
  /\ ~shutting_down
  /\ helper = "any"
  /\ \E t \in Threads :
       pc[t] = "done" /\ op[t] = "ensure_running" /\ ret[t].kind = "crash_loop"

C5_TransportFailureInvalidates ==
  [][\A t \in Callers :
       (Received(t) /\ op[t] # "destroy"
          /\ ret'[t].resp \in {"refused", "reset", "timeout"})
       => /\ ret'[t].kind = "conn_error"
          /\ cl_endpoint'[cli[t]] = NoEndpoint]_vars

C7_ProtocolViolationFails ==
  \A t \in Callers :
    (pc[t] = "done" /\ op[t] = "rpc" /\ ret[t].resp \in {"neither", "both"})
    => ret[t].kind # "ok"

(* C8: destroy never raises, whatever its RPC meets; calls made one after *)
(* another send at most one destroy request for the session; a call on a  *)
(* destroyed editor returns at once without a request.                    *)
C8_DestroyIdempotent ==
  /\ [](\A t \in Callers :
          (pc[t] = "done" /\ op[t] = "destroy") =>
             ret[t].kind = "ok" /\ destroyed[cli[t]])
  /\ [](\A c \in Clients : c \notin overlap => destroyRpcs[c] <= 1)
  /\ [][\A t \in Callers :
          (pc[t] = "idle" /\ op'[t] = "destroy" /\ destroyed[cli'[t]]) =>
             /\ pc'[t] = "done"
             /\ ret'[t].kind = "ok"
             /\ destroyRpcs' = destroyRpcs]_vars

C8_Witness ==
  \E t \in Callers :
    /\ pc[t] = "done" /\ op[t] = "destroy" /\ meth[t] = "none"
    /\ destroyed[cli[t]]
    /\ destroyRpcs[cli[t]] = 1
    /\ cli[t] \notin overlap

(* C9: every failure of a client or editor operation other than destroy   *)
(* reaches the caller as a SuperdocError.                                 *)
C9_UniformErrorKind ==
  \A t \in Callers :
    (pc[t] = "done" /\ op[t] \in {"rpc", "get_editor"} /\ ret[t].kind # "ok")
    => IsSuperdocError(ret[t].kind)

(* C10: whenever an ensure_running or a stop call returns, the            *)
(* supervisor's endpoint is set exactly if its child is alive and has     *)
(* just answered the health check.                                        *)
EndpointMatchesChild ==
  (endpoint # NoEndpoint) <=> (process # NoProc /\ DoHealthCheck(endpoint)
                               /\ PollIsNone(process))

C10_EndpointIffHealthy ==
  [][\A t \in Threads :
       ((pc[t] \in {"er_lock", "er_wait"} /\ pc'[t] = "done")
          \/ (pc[t] = "idle" /\ op'[t] = "stop"))
       => EndpointMatchesChild']_vars

(* C14: with concurrent callers on one client, every _call sends its      *)
(* request to a non-null endpoint: no call meets an endpoint that another *)
(* caller's connection failure cleared after the null check.              *)
C14_NoRaceOnEndpoint ==
  \A t \in Threads :
    /\ pc[t] = "call_recv" => req[t] # NoEndpoint
    /\ (pc[t] = "done" /\ op[t] = "rpc") => ret[t].kind # "ValueError"

(* C15: for every class of helper outcome the blocking and the           *)
(* cooperative _call hand the caller the same outcome and make the same   *)
(* change to the cached endpoint: what a call of one variant does is      *)
(* among the things the other variant does on that outcome.               *)
OtherVariant(v) == IF v = "sync" THEN "async" ELSE "sync"

C15_VariantsAgree ==
  [][\A t \in Callers :
       (Received(t) /\ op[t] = "rpc") =>
         <<ret'[t].kind, cl_endpoint'[cli[t]] = NoEndpoint>>
            \in CallEffects(OtherVariant(Variant(cli[t])), ret'[t].resp)]_vars

(* the response carries a truthy pong marker in its result object *)
PongTruthy(r) ==
  /\ r.transport = "body" /\ r.top = "obj" /\ r.result = "obj"
  /\ Truthy(r.pong)

(* C16: _do_health_check (and ping) never raises: every failed exchange   *)
(* and every malformed response gives a falsy value, and the value is     *)
(* truthy only when the response's result carries a truthy pong.          *)
C16_HealthCheckNeverRaises ==
  hc_op # "none" =>
    /\ hc_result.raised = "none"
    /\ hc_result.value # "pending"
    /\ Truthy(hc_result.value) => PongTruthy(hc_response)
    /\ (hc_op = "health_check" /\ PongTruthy(hc_response)) =>
         Truthy(hc_result.value)

C16_Witness ==
  /\ hc_op = "health_check"
  /\ hc_response.transport = "body" /\ hc_response.top = "obj"
  /\ hc_response.result = "str"
  /\ hc_result = Value("false")

(* C17: a with block over an editor runs destroy on the way out, after a  *)
(* normal return and after an exception of the body alike, and what the   *)
(* body returned or raised reaches the caller unchanged; a convenience    *)
(* call that obtained a session has destroyed it when it ends.            *)
C17_ScopeAlwaysDestroys ==
  [][\A t \in Callers :
       (op[t] = "with" /\ pc[t] # "done" /\ pc'[t] = "done") =>
         /\ edState'[cli[t]] = "live" => destroyed'[cli[t]]
         /\ meth[t] = "destroy" => ret'[t] = ret[t]]_vars

C17_Witness ==
  \E t \in Callers :
    /\ pc[t] = "done" /\ op[t] = "with" /\ meth[t] = "destroy"
    /\ ret[t].kind = "app_error"
    /\ destroyed[cli[t]] /\ destroyRpcs[cli[t]] = 1

(* C18: for one caller on one editor, get_editor leaves the session       *)
(* ready, close leaves it idle, open on an idle session leaves it ready,  *)
(* get_lifecycle returns the state the session is in, and any other       *)
(* operation on an idle session raises the application error and leaves   *)
(* the session as it was.                                                 *)
C18_LifecycleTransitions ==
  [][\A t \in Callers :
       Received(t) =>
         LET c == cli[t]
         IN /\ (op[t] = "get_editor" /\ ret'[t].kind = "ok") =>
                 lifecycle'[c] = "ready"
            /\ (op[t] = "close" /\ ret'[t].kind = "ok") =>
                 lifecycle[c] = "ready" /\ lifecycle'[c] = "idle"
            /\ (op[t] = "open" /\ lifecycle[c] = "idle") =>
                 ret'[t].kind = "ok" /\ lifecycle'[c] = "ready"
            /\ (op[t] = "get_lifecycle" /\ lifecycle[c] \in {"ready", "idle"})
                 => /\ ret'[t].kind = "ok"
                    /\ ret'[t].resp = lifecycle[c]
                    /\ lifecycle' = lifecycle
            /\ (op[t] \in EditorOps \ {"open", "get_lifecycle"}
                  /\ lifecycle[c] = "idle")
                 => ret'[t].kind = "app_error" /\ lifecycle' = lifecycle]_vars

C18_Witness ==
  \E t \in Callers :
    /\ pc[t] = "done" /\ op[t] = "get_lifecycle"
    /\ ret[t].kind = "ok" /\ ret[t].resp = "idle"
    /\ lifecycle[cli[t]] = "idle" /\ ~destroyed[cli[t]]

(* C19: after a restart, an endpoint that a client cached from an        *)
(* earlier child is never one on which the helper answers, so that a call *)
(* on it cannot succeed and must fail with the connection error.          *)
C19_StaleEndpointFails ==
  \A c \in Clients :
    (cl_endpoint[c] # NoEndpoint /\ cl_gen[c] \notin {NoProc, process})
    => ~DoHealthCheck(cl_endpoint[c])

(* C20: is_running never waits for the supervisor's lock: a caller can   *)
(* start and complete it while another caller is inside ensure_running's  *)
(* critical section.                                                      *)
C20_ProbesNeverWait ==
  \A t, u \in Threads :
    (t # u /\ pc[u] = "er_wait" /\ lock = u /\ pc[t] = "idle")
    => ENABLED IsRunning(t)

(* C21: however many threads construct clients, one ServerProcessManager *)
(* object is ever allocated, its fields are assigned by __init__ once,   *)
(* and every finished _get_manager() call returned that one initialised  *)
(* object; no later construction assigns the fields again.               *)
C21_OneSupervisorOneInit ==
  /\ created <= 1
  /\ inits <= 1
  /\ \A t \in Threads :
       (pc[t] = "done" /\ op[t] = "get_manager") =>
          /\ local[t] = 1
          /\ manager = 1
          /\ instance = 1
          /\ initialized[1]
          /\ inits = 1

C21_Witness ==
  /\ \A t \in Threads : pc[t] = "done" /\ op[t] = "get_manager"
  /\ inits = 1
  /\ created = 1
  /\ spawnCount >= 1

(* thread t performs stop() in this step *)
Stopped(t) == pc[t] = "idle" /\ op'[t] = "stop"

(* C11: stop() never raises and leaves the supervisor without process,    *)
(* port and endpoint and with the shutting-down flag set, from every      *)
(* state; a stop() right after a stop() changes nothing.                  *)
C11_StopIdempotent ==
  [][\A t \in Threads :
       Stopped(t) =>
         /\ pc'[t] = "done" /\ ret'[t].kind = "stopped"
         /\ process' = NoProc /\ port' = NoPort /\ endpoint' = NoEndpoint
         /\ shutting_down'
         /\ \A p \in Pids : ~Alive(p)'
         /\ (shutting_down /\ process = NoProc) =>
              supVars' = supVars /\ osVars' = osVars]_vars

C11_Witness ==
  /\ spawnCount >= 1
  /\ process = NoProc /\ endpoint = NoEndpoint /\ shutting_down
  /\ \A t \in Threads : pc[t] = "done" /\ op[t] = "stop"

(* C12: with a helper that becomes healthy, every ensure_running call     *)
(* made after stop()/shutdown() returned spawns a new child when none is  *)
(* running and returns the endpoint of a live, healthy child.             *)
C12_RestartsAfterShutdown ==
  [][\A t \in Threads :
       (helper = "good" /\ shutting_down) =>
         /\ (Entered(t) /\ process = NoProc) =>
              spawnCount' = spawnCount + 1 /\ pc'[t] = "er_wait"
         /\ (pc[t] \in {"er_lock", "er_wait"} /\ pc'[t] = "done") =>
              /\ ret'[t].kind = "ok"
              /\ ret'[t].ep = endpoint'
              /\ process' # NoProc
              /\ DoHealthCheck(endpoint)']_vars

C12_Witness ==
  /\ helper = "good"
  /\ shutting_down
  /\ spawnCount = 2
  /\ \E t \in Threads :
       /\ pc[t] = "done" /\ op[t] = "ensure_running" /\ ret[t].kind = "ok"
       /\ ret[t].ep = endpoint
       /\ process = 2

(* C13 as claimed: with the shutting-down flag set, an ensure_running     *)
(* call that does not find a live, healthy child fails at once and spawns *)
(* nothing.                                                               *)
C13_StoppedIsFinal ==
  [][\A t \in Threads :
       (Entered(t) /\ shutting_down /\ Found # "healthy") =>
         /\ pc'[t] = "done"
         /\ ret'[t].kind = "shutting_down"
         /\ spawnCount' = spawnCount]_vars

(* C13 amended: with the flag set, a call that finds the handle of an     *)
(* exited child fails at once with the shutting-down error, spawning      *)
(* nothing and leaving the supervisor as it was; a call that finds no     *)
(* handle, or a live child that does not answer, goes on to start a new   *)
(* child.                                                                 *)
C13_FailsOnlyOnDeadHandle ==
  [][\A t \in Threads :
       (Entered(t) /\ shutting_down) =>
         /\ Found = "dead" =>
              /\ pc'[t] = "done"
              /\ ret'[t].kind = "shutting_down"
              /\ spawnCount' = spawnCount
              /\ supVars' = supVars
              /\ osVars' = osVars
         /\ Found \in {"cold", "unhealthy"} =>
              \/ spawnCount' = spawnCount + 1 /\ pc'[t] = "er_wait"
              \/ pc'[t] = "done" /\
                 ret'[t].kind \in {"config", "FileNotFoundError"}]_vars

C13_Witness ==
  /\ shutting_down
  /\ spawnCount >= 2
  /\ \E t \in Threads :
       /\ pc[t] = "done" /\ op[t] = "ensure_running"
       /\ ret[t].kind = "shutting_down"

(* C22: the exit hook is shutdown(), which runs stop() on the supervisor; *)
(* from whatever state it is run in, when it has returned no child the    *)
(* supervisor ever spawned is alive and the supervisor holds no handle.   *)
C22_ExitLeavesNoChild ==
  [][\A t \in Threads :
       Stopped(t) =>
         /\ pc'[t] = "done"
         /\ process' = NoProc
         /\ \A p \in Pids : ~Alive(p)']_vars

C22_Witness ==
  /\ helper = "good"
  /\ spawnCount = 1
  /\ procState[1] = "dead"
  /\ process = NoProc
  /\ \E t \in Threads : pc[t] = "done" /\ op[t] = "stop"

ReturnsEndpoint(t) ==
  /\ op[t] = "ensure_running"
  /\ pc[t] \in {"er_lock", "er_wait"}
  /\ pc'[t] = "done"
  /\ ret'[t].kind = "ok"

(* C24 as claimed: the restart counter is zero when ensure_running        *)
(* returns an endpoint, goes up by one in every call that finds the child *)
(* exited, and changes in no other step.                                  *)
C24_CounterDiscipline ==
  [][/\ \A t \in Threads :
          /\ ReturnsEndpoint(t) => restart_count' = 0
          /\ (Entered(t) /\ Found = "dead") =>
                restart_count' = restart_count + 1
     /\ restart_count' # restart_count =>
          \E t \in Threads :
             \/ Entered(t) /\ Found = "dead"
             \/ ReturnsEndpoint(t) /\ pc[t] = "er_wait"]_vars

(* C24 amended: the restart counter is zero when ensure_running returns   *)
(* an endpoint; it goes up by one in every call that finds the child      *)
(* exited while the supervisor is not shutting down, stays as it is in a  *)
(* call that finds the child exited while shutting down, and changes in   *)
(* no other step except the reset after a successful start.               *)
C24_CountsUnlessShuttingDown ==
  [][/\ \A t \in Threads :
          /\ ReturnsEndpoint(t) => restart_count' = 0
          /\ (Entered(t) /\ Found = "dead" /\ ~shutting_down) =>
                restart_count' = restart_count + 1
          /\ (Entered(t) /\ Found = "dead" /\ shutting_down) =>
                restart_count' = restart_count
     /\ restart_count' # restart_count =>
          \E t \in Threads :
             \/ Entered(t) /\ Found = "dead" /\ ~shutting_down
             \/ ReturnsEndpoint(t) /\ pc[t] = "er_wait"]_vars

C24_Witness ==
  /\ restart_count = 0
  /\ spawnCount >= 3
  /\ ~shutting_down
  /\ \E t \in Threads :
       /\ pc[t] = "done" /\ op[t] = "ensure_running" /\ ret[t].kind = "ok"
       /\ process = spawnCount
       /\ procState[spawnCount - 1] = "dead"
       /\ procState[spawnCount - 2] = "dead"

(* thread t's readiness wait comes to an end in this step *)
WaitEnds(t) == pc[t] = "er_wait" /\ pc'[t] # "er_wait"

(* C25: when the readiness wait finds the child exited, the call fails in *)
(* that same poll with the error that carries the child's output, not     *)
(* with the start-timeout error; the wait is over, so no health poll      *)
(* follows, and the supervisor's fields are left as they were.            *)
C25_ExitEndsWait ==
  [][\A t \in Threads :
       (WaitEnds(t) /\ ~PollIsNone(process)) =>
         /\ pc'[t] \notin {"er_lock", "er_wait"}
         /\ ret'[t] = RetResp("died", "captured_output")
         /\ lock' = 0
         /\ supVars' = supVars
         /\ spawnCount' = spawnCount]_vars

C25_Witness ==
  /\ helper = "any"
  /\ process # NoProc
  /\ procState[process] = "dead"
  /\ lock = 0
  /\ \E t \in Threads :
       /\ pc[t] = "done" /\ op[t] = "ensure_running"
       /\ ret[t].kind = "died" /\ ret[t].resp = "captured_output"

(* C26: a readiness wait that times out ends the child it started, clears *)
(* process, port and endpoint and fails with the start-timeout error,     *)
(* leaving the restart counter alone; the supervisor is then as before    *)
(* its first start, and a call that finds it so attempts a spawn whatever *)
(* the restart counter and the shutting-down flag are.                    *)
C26_TimeoutClearsThenRespawns ==
  [][\A t \in Threads :
       /\ (WaitEnds(t) /\ ret'[t].kind = "start_timeout") =>
            /\ pc'[t] = "done"
            /\ ~Alive(process)'
            /\ \A p \in Pids : ~Alive(p)'
            /\ process' = NoProc /\ port' = NoPort /\ endpoint' = NoEndpoint
            /\ restart_count' = restart_count
            /\ lock' = 0
            /\ Found' = "cold"
       /\ (Entered(t) /\ Found = "cold") =>
            /\ restart_count' = restart_count
            /\ \/ /\ pc'[t] = "er_wait"
                  /\ spawnCount' = spawnCount + 1
                  /\ process' = spawnCount + 1
                  /\ endpoint' = EndpointOf(port')
               \/ /\ pc'[t] = "done"
                  /\ ret'[t].kind \in {"config", "FileNotFoundError"}]_vars

C26_Witness ==
  /\ spawnCount = 2
  /\ procState[1] = "dead"
  /\ process = 2
  /\ ~shutting_down
  /\ \E t, u \in Threads :
       /\ pc[t] = "done" /\ op[t] = "ensure_running"
       /\ ret[t].kind = "start_timeout"
       /\ pc[u] = "er_wait"

(* C27: a call that finds the child alive and answering the health check  *)
(* returns the current endpoint in that step, spawns nothing, releases    *)
(* the lock and leaves process, port, endpoint, restart counter,          *)
(* shutting-down flag and the child itself as they were.                  *)
C27_FastPathFrame ==
  [][\A t \in Threads :
       (/\ Entered(t)
        /\ process # NoProc
        /\ PollIsNone(process)
        /\ DoHealthCheck(endpoint)) =>
          /\ pc'[t] = "done"
          /\ ret'[t] = RetEp(endpoint)
          /\ spawnCount' = spawnCount
          /\ supVars' = supVars
          /\ osVars' = osVars
          /\ ~backoff'
          /\ lock' = 0]_vars

C27_Witness ==
  /\ helper = "any"
  /\ spawnCount = 1
  /\ process = 1
  /\ procState[1] = "healthy"
  /\ shutting_down
  /\ \A t \in Threads :
       /\ pc[t] = "done" /\ op[t] = "ensure_running"
       /\ ret[t] = RetEp(endpoint)

(* C28: when destroy is called on one editor handle by two callers at the *)
(* same time, the helper is sent at most one destroy request for the      *)
(* session and every destroy call returns normally.                       *)
C28_ConcurrentDestroyOnce ==
  /\ \A c \in Clients : destroyRpcs[c] <= 1
  /\ \A t \in Threads :
       (pc[t] = "done" /\ op[t] = "destroy") => ret[t].kind = "ok"

(* C29: of the connection-pool sessions a cooperative client has made, at *)
(* most one is open at any time, and it is the one the client holds in    *)
(* _session, so that close() leaves none of them open.                    *)
C29_OneOpenSession ==
  \A c \in Clients :
    /\ Cardinality(sessOpen[c]) <= 1
    /\ sessOpen[c] \subseteq {cl_session[c]}

(* C30: at any time at most one child the supervisor spawned is alive,    *)
(* and it is the one the supervisor's handle refers to: every earlier     *)
(* child has exited or has been terminated by the supervisor.             *)
C30_OneLiveChild ==
  /\ Cardinality({p \in Pids : Alive(p)}) <= 1
  /\ \A p \in Pids : Alive(p) => p = process
  /\ \A p \in Pids : (p # process /\ p <= spawnCount) => procState[p] = "dead"

C30_Witness ==
  /\ helper = "any"
  /\ spawnCount = MaxSpawns
  /\ process = spawnCount
  /\ Alive(process)
  /\ restart_count = 0
  /\ shutting_down
  /\ \A p \in Pids : p < spawnCount => procState[p] = "dead"

(* the bound on the counter leaves room for one more call *)
WithinBounds == restart_count < MaxRestartCount

C32_OnlyDeadConsumesBudget ==
  [][/\ \A t \in Threads :
          /\ (WaitEnds(t) /\ ret'[t].kind = "start_timeout") =>
                restart_count' = restart_count /\ Found' = "cold"
          /\ (Entered(t) /\ Found \in {"unhealthy", "cold"}) =>
                /\ restart_count' = restart_count
                /\ ret'[t].kind # "crash_loop"
                /\ pc'[t] = "done" => spawnCount' = spawnCount
                /\ pc'[t] # "done" => spawnCount' = spawnCount + 1
     /\ restart_count' > restart_count =>
          \E t \in Threads : Entered(t) /\ Found = "dead"]_vars

C32_Witness ==
  /\ ~shutting_down
  /\ restart_count = 0
  /\ spawnCount > Ceiling + 1
  /\ \A p \in Pids : p < spawnCount => procState[p] = "dead"
  /\ \E t \in Threads :
       /\ pc[t] = "er_wait" /\ process = spawnCount
       /\ procState[process] = "hung"
  /\ \E t \in Threads :
       pc[t] = "done" /\ op[t] = "ensure_running" /\
       ret[t].kind = "start_timeout"

(* C33 as claimed: the shutting-down flag, once set, stays set; and once  *)
(* it is set and the supervisor holds the handle of an exited child, that *)
(* stays so for good: every ensure_running call fails with the            *)
(* shutting-down error, nothing is spawned, the counter is not written.   *)
C33_DeadAfterStopIsFinal ==
  [][/\ shutting_down => shutting_down'
     /\ (shutting_down /\ Found = "dead") =>
          /\ Found' = "dead"
          /\ spawnCount' = spawnCount
          /\ restart_count' = restart_count
          /\ \A t \in Threads :
               Entered(t) =>
                 pc'[t] = "done" /\ ret'[t].kind = "shutting_down"]_vars

(* C33 amended: the flag, once set, stays set; while it is set and the    *)
(* supervisor holds the handle of an exited child, every ensure_running   *)
(* call fails with the shutting-down error, spawning nothing and leaving  *)
(* the counter alone, until stop() is called again: that stop() clears    *)
(* the handle, and the supervisor is then as after the first stop().      *)
C33_DeadAfterStopUntilStop ==
  [][/\ shutting_down => shutting_down'
     /\ (shutting_down /\ Found = "dead") =>
          /\ spawnCount' = spawnCount
          /\ restart_count' = restart_count
          /\ \A t \in Threads :
               Entered(t) =>
                 pc'[t] = "done" /\ ret'[t].kind = "shutting_down"
          /\ IF \E t \in Threads : Stopped(t)
               THEN Found' = "cold" /\ process' = NoProc
               ELSE Found' = "dead" /\ process' = process]_vars

C33_Witness ==
  /\ shutting_down
  /\ restart_count = 0
  /\ spawnCount = 1
  /\ process = 1
  /\ procState[1] = "dead"
  /\ \A t \in Threads :
       /\ pc[t] = "done" /\ op[t] = "ensure_running"
       /\ ret[t].kind = "shutting_down"
====
